---- MODULE Spec2Model ----
(***************************************************************************)
(* pdftool: the shrink and watermark commands (src/pdftool/main.py) and    *)
(* add_watermark / create_watermark (src/pdftool/watermark.py), run        *)
(* against one folder of files.                                            *)
(*                                                                         *)
(* A path is a stem (a sequence of name pieces) and an extension.  A file  *)
(* is either bytes that pikepdf cannot parse ("garbage") or a PDF with a   *)
(* sequence of pages; a page carries its identity and the number of        *)
(* overlays composited onto it.  Gray and alpha levels are in tenths.      *)
(***************************************************************************)
EXTENDS Integers, Sequences, FiniteSets, TLC

VARIABLES fs, pc, pending, attempted, call, cmd, left

vars == <<fs, pc, pending, attempted, call, cmd, left>>

\* ------------------------------------------------------------- bounds
MaxPages == 2
MaxFiles == 2
MaxOps == 1
MaxRuns == 2

\* ---------------------------------------------------------- constants
AllowedFonts == {"Helvetica", "Times-Roman", "Courier", "Symbol", "ZapfDingbats"}

\* the fonts the drawing library can set without registration: the enumerated
\* ones and others the command line does not offer
LibraryFonts == AllowedFonts \cup {"Helvetica-Bold"}

\* gray and alpha levels, in tenths: min=0.0, max=1.0
LevelMin == 0
LevelMax == 10

MARKER == "_watermarked"

\* --------------------------------------------------------------- paths
PathOf(stem, ext) == [stem |-> stem, ext |-> ext]

Folder == PathOf(<<>>, "")
MissingPath == PathOf(<<"zz">>, "pdf")
NoPath == PathOf(<<>>, "none")

with_stem(p, s) == [p EXCEPT !.stem = s]

\* "<marker>" in target.stem
InStem(marker, stem) == \E i \in 1..Len(stem) : stem[i] = marker

lower(ext) == IF ext = "PDF" THEN "pdf" ELSE ext

is_file(f, p) == p \in DOMAIN f
is_dir(p) == p = Folder

\* target.glob("*.pdf"): the immediate children whose name ends in .pdf
glob(f) == {p \in DOMAIN f : p.ext = "pdf"}

\* --------------------------------------------------------------- files
Page(id, ov) == [id |-> id, ov |-> ov]

Garbage == [kind |-> "garbage", pages |-> <<>>, lin |-> FALSE]
Pdf(pages, lin) == [kind |-> "pdf", pages |-> pages, lin |-> lin]
FreshPdf(n) == Pdf([i \in 1..n |-> Page(i, 0)], FALSE)

\* the one-page PDF canvas.save() writes
OverlayPdf == Pdf(<<Page(0, 0)>>, FALSE)

Put(f, p, c) == [q \in DOMAIN f \cup {p} |-> IF q = p THEN c ELSE f[q]]
unlink(f, p) == [q \in DOMAIN f \ {p} |-> f[q]]

\* pikepdf.open(p)
OpenErr(f, p) ==
  IF p \notin DOMAIN f THEN "FileNotFoundError"
  ELSE IF f[p].kind # "pdf" THEN "PdfError"
  ELSE "none"

Raise(f, e, out) ==
  [fs |-> f, err |-> e, skipped |-> FALSE, opened |-> TRUE, output |-> out]
Return(f, out) ==
  [fs |-> f, err |-> "none", skipped |-> FALSE, opened |-> TRUE, output |-> out]

\* The environment of one operation: env.io is the write the operating system
\* refuses ("none"; "save": the output file cannot be written, e.g. a read-only
\* file is in its place), and env.strictGray is whether the drawing library
\* refuses a gray level outside 0..1, which is the library's choice.  A refused
\* write changes nothing.
Env(io, strictGray) == [io |-> io, strictGray |-> strictGray]

\* ------------------------------------------------------------- shrink
\* output_file of the shrink command
shrink_output_file(target, overwrite) ==
  IF overwrite THEN target
  ELSE with_stem(target, target.stem \o <<"_shrunken">>)

\* shrink_pdf: only pikepdf.PdfError is caught (and re-raised as RuntimeError)
shrink_pdf(f, input_path, output_path, env) ==
  LET e == OpenErr(f, input_path) IN
  IF e = "FileNotFoundError" THEN Raise(f, "FileNotFoundError", output_path)
  ELSE IF e = "PdfError" THEN Raise(f, "RuntimeError", output_path)
  ELSE IF env.io = "save" THEN Raise(f, "PermissionError", output_path)
  ELSE Return(Put(f, output_path, Pdf(f[input_path].pages, TRUE)), output_path)

\* ---------------------------------------------------------- watermark
\* mutant: the output path is the target, whatever overwrite says
watermark_output_pdf_inplace(target_pdf, overwrite) == target_pdf

watermark_output_pdf(target_pdf, overwrite) ==
  IF overwrite THEN target_pdf
  ELSE with_stem(target_pdf, target_pdf.stem \o <<MARKER>>)

watermark_pdf_path(target_pdf) ==
  with_stem(target_pdf, target_pdf.stem \o <<"_temp">>)

\* The options of one watermark operation (text, rotation and font size do
\* not decide what is written where).
Options(font, gray, alpha) ==
  [font |-> font, gray_level |-> gray, alpha_level |-> alpha]

InRange(x) == LevelMin <= x /\ x <= LevelMax

\* mutant: the overlay file is written before the font and the levels are set
create_watermark_write_first(f, output_pdf, o, env) ==
  IF o.font \notin LibraryFonts
    THEN [fs |-> Put(f, output_pdf, OverlayPdf), err |-> "KeyError"]
  ELSE IF env.strictGray /\ ~InRange(o.gray_level)
    THEN [fs |-> Put(f, output_pdf, OverlayPdf), err |-> "ValueError"]
  ELSE IF ~InRange(o.alpha_level)
    THEN [fs |-> Put(f, output_pdf, OverlayPdf), err |-> "ValueError"]
  ELSE [fs |-> Put(f, output_pdf, OverlayPdf), err |-> "none"]

\* create_watermark: the canvas is set up in memory (setFont, setFillGray) and
\* the file is written by the closing c.save().
create_watermark(f, output_pdf, o, env) ==
  IF o.font \notin LibraryFonts THEN [fs |-> f, err |-> "KeyError"]
  ELSE IF env.strictGray /\ ~InRange(o.gray_level)
    THEN [fs |-> f, err |-> "ValueError"]
  ELSE IF ~InRange(o.alpha_level) THEN [fs |-> f, err |-> "ValueError"]
  ELSE [fs |-> Put(f, output_pdf, OverlayPdf), err |-> "none"]

\* page.add_overlay(watermark_page)
add_overlay(page, watermark_page) == Page(page.id, page.ov + 1)

\* mutant: the loop starts at the second page
overlay_pages_from_second(pages, watermark_page) ==
  [i \in 1..Len(pages) |->
     IF i = 1 THEN pages[i] ELSE add_overlay(pages[i], watermark_page)]

\* for page in pdf.pages: page.add_overlay(watermark_page)
overlay_pages(pages, watermark_page) ==
  [i \in 1..Len(pages) |-> add_overlay(pages[i], watermark_page)]

\* add_watermark from the "Determine the output path" comment on
add_watermark_body(f, target_pdf, overwrite, o, env) ==
  LET output_pdf == watermark_output_pdf(target_pdf, overwrite)
      e == OpenErr(f, target_pdf)
  IN
  IF e # "none" THEN Raise(f, e, output_pdf)
  ELSE LET pdf == f[target_pdf].pages IN
    IF Len(pdf) = 0 THEN Raise(f, "IndexError", output_pdf)
    ELSE LET tmp == watermark_pdf_path(target_pdf)
             cw == create_watermark(f, tmp, o, env)
         IN
      IF cw.err # "none" THEN Raise(cw.fs, cw.err, output_pdf)
      ELSE LET watermark_page == cw.fs[tmp].pages[1]
               stamped == overlay_pages(pdf, watermark_page)
           IN
        IF env.io = "save" THEN Raise(cw.fs, "PermissionError", output_pdf)
        ELSE Return(unlink(Put(cw.fs, output_pdf, Pdf(stamped, FALSE)), tmp),
                    output_pdf)

\* mutant: no check of the marker
add_watermark_unguarded(f, target_pdf, overwrite, o, env) ==
  add_watermark_body(f, target_pdf, overwrite, o, env)

add_watermark(f, target_pdf, overwrite, o, env) ==
  IF InStem(MARKER, target_pdf.stem)
    THEN [fs |-> f, err |-> "none", skipped |-> TRUE, opened |-> FALSE,
          output |-> NoPath]
  ELSE add_watermark_body(f, target_pdf, overwrite, o, env)

\* ------------------------------------------------------------- state
\* fs         the folder: path -> file
\* pc         "idle", or the folder loop in progress ("shrink", "watermark")
\* pending    the files of the folder listing not yet reached by the loop
\* attempted  the files the loop has handed to shrink_pdf / add_watermark
\* call       what the last step did: the shrink_pdf / add_watermark call it
\*            made (op "none" when it made none) and the folder before it
\* cmd        the last command: its arguments, exit code (-1 while its
\*            loop runs) and message on the error stream
\* left       the number of invocations still to come
NoOptions == Options("", 0, 0)

NoCall(before) ==
  [op |-> "none", target |-> NoPath, overwrite |-> FALSE, output |-> NoPath,
   err |-> "none", skipped |-> FALSE, opened |-> FALSE, before |-> before]

CallOf(op, target, overwrite, r, before) ==
  [op |-> op, target |-> target, overwrite |-> overwrite, output |-> r.output,
   err |-> r.err, skipped |-> r.skipped, opened |-> r.opened,
   before |-> before]

Cmd(name, mode, target, overwrite, listing, exit, msg) ==
  [name |-> name, mode |-> mode, target |-> target, overwrite |-> overwrite,
   listing |-> listing, exit |-> exit, msg |-> msg, opts |-> NoOptions]

ExitOf(err) == IF err = "none" THEN 0 ELSE 1

InitNames ==
  { PathOf(<<"a">>, "pdf"), PathOf(<<"a", "_temp">>, "pdf"),
    PathOf(<<"a", MARKER>>, "pdf"), PathOf(<<"n">>, "txt") }

\* what a file of the folder holds: no PDF, or a PDF of no page, of one page,
\* of MaxPages pages
InitFiles == {Garbage} \cup {FreshPdf(n) : n \in {0, 1, MaxPages}}

\* a folder of up to MaxFiles files, nothing running
InitFolder ==
  /\ \E names \in SUBSET InitNames :
       /\ Cardinality(names) <= MaxFiles
       /\ fs \in [names -> InitFiles]
  /\ pc = "idle"
  /\ pending = {}
  /\ attempted = {}
  /\ call = NoCall(fs)
  /\ cmd = Cmd("none", "none", NoPath, FALSE, {}, 0, "")

Init == InitFolder /\ left = MaxOps

InitRuns == InitFolder /\ left = MaxRuns

Targets == DOMAIN fs \cup {Folder, MissingPath}

\* ------------------------------------------------------------ inputs
DefaultOptions == Options("Helvetica", 5, 5)

\* the default options, and each option in turn outside what the command
\* line accepts
OptionInputs ==
  { DefaultOptions,
    [DefaultOptions EXCEPT !.font = "Helvetica-Bold"],
    [DefaultOptions EXCEPT !.font = "Arial"],
    [DefaultOptions EXCEPT !.gray_level = LevelMax + 1],
    [DefaultOptions EXCEPT !.alpha_level = LevelMin - 1] }

ShrinkEnvs == {Env(io, FALSE) : io \in {"none", "save"}}

\* strictGray is read only for a gray level out of range
WatermarkEnvs(o) ==
  { Env(io, strict) :
      io \in {"none", "save"},
      strict \in IF InRange(o.gray_level) THEN {FALSE} ELSE BOOLEAN }

\* ------------------------------------------------------------ actions
NoCmd == Cmd("none", "none", NoPath, FALSE, {}, 0, "")

\* no invocation is running: the next one starts in a fresh process
AtPrompt == pc = "idle" /\ cmd = NoCmd

\* `pdftool shrink TARGET [--overwrite]`; for a folder, up to the loop
Shrink(target, overwrite) ==
  /\ AtPrompt
  /\ left > 0
  /\ left' = left - 1
  /\ attempted' = {}
  /\ IF is_file(fs, target) THEN
       IF lower(target.ext) # "pdf" THEN
         /\ cmd' = Cmd("shrink", "file", target, overwrite, {}, 1,
                       "The specified file is not a PDF.")
         /\ call' = NoCall(fs)
         /\ UNCHANGED <<fs, pc, pending>>
       ELSE
         \E env \in ShrinkEnvs :
           LET output_file == shrink_output_file(target, overwrite)
               r == shrink_pdf(fs, target, output_file, env)
           IN /\ fs' = r.fs
              /\ call' = CallOf("shrink_pdf", target, overwrite, r, fs)
              /\ cmd' = Cmd("shrink", "file", target, overwrite, {},
                            ExitOf(r.err), "")
              /\ UNCHANGED <<pc, pending>>
     ELSE IF is_dir(target) THEN
       LET pdf_files == glob(fs) IN
       IF pdf_files = {} THEN
         /\ cmd' = Cmd("shrink", "folder", target, overwrite, {}, 1,
                       "No PDF files found in the specified folder.")
         /\ call' = NoCall(fs)
         /\ UNCHANGED <<fs, pc, pending>>
       ELSE
         /\ cmd' = Cmd("shrink", "folder", target, overwrite, pdf_files, -1,
                       "")
         /\ pc' = "shrink"
         /\ pending' = pdf_files
         /\ call' = NoCall(fs)
         /\ UNCHANGED fs
     ELSE
       /\ cmd' = Cmd("shrink", "invalid", target, overwrite, {}, 1,
                     "The specified path is neither a file nor a folder.")
       /\ call' = NoCall(fs)
       /\ UNCHANGED <<fs, pc, pending>>

\* one iteration of `for pdf_file in pdf_files` of shrink; an exception
\* leaves the loop and the command
ShrinkLoop ==
  /\ pc = "shrink"
  /\ \E pdf_file \in pending, env \in ShrinkEnvs :
       LET output_file == shrink_output_file(pdf_file, cmd.overwrite)
           r == shrink_pdf(fs, pdf_file, output_file, env)
           rest == pending \ {pdf_file}
       IN /\ fs' = r.fs
          /\ call' = CallOf("shrink_pdf", pdf_file, cmd.overwrite, r, fs)
          /\ attempted' = attempted \cup {pdf_file}
          /\ IF r.err # "none" THEN
               /\ pc' = "idle"
               /\ pending' = {}
               /\ cmd' = [cmd EXCEPT !.exit = 1]
             ELSE IF rest = {} THEN
               /\ pc' = "idle"
               /\ pending' = {}
               /\ cmd' = [cmd EXCEPT !.exit = 0]
             ELSE
               /\ pending' = rest
               /\ UNCHANGED <<pc, cmd>>
  /\ UNCHANGED left

\* what the command line accepts: font: AllowedFonts, gray and alpha with
\* min=0.0, max=1.0
OptionsAccepted(o) ==
  o.font \in AllowedFonts /\ InRange(o.gray_level) /\ InRange(o.alpha_level)

\* `pdftool watermark PATH TEXT [options]`; for a folder, up to the loop
Watermark(path, overwrite, o) ==
  /\ AtPrompt
  /\ left > 0
  /\ left' = left - 1
  /\ attempted' = {}
  /\ IF ~OptionsAccepted(o) THEN
       \* rejected while the arguments are parsed: the function is not entered
       /\ cmd' = Cmd("watermark", "usage", NoPath, FALSE, {}, 2,
                     "Invalid value")
       /\ call' = NoCall(fs)
       /\ UNCHANGED <<fs, pc, pending>>
     ELSE IF is_file(fs, path) THEN
       \E env \in WatermarkEnvs(o) :
         LET r == add_watermark(fs, path, overwrite, o, env)
         IN /\ fs' = r.fs
            /\ call' = CallOf("add_watermark", path, overwrite, r, fs)
            /\ cmd' = [Cmd("watermark", "file", path, overwrite, {},
                           ExitOf(r.err), "") EXCEPT !.opts = o]
            /\ UNCHANGED <<pc, pending>>
     ELSE IF is_dir(path) THEN
       LET pdf_files == glob(fs) IN
       IF pdf_files = {} THEN
         /\ cmd' = [Cmd("watermark", "folder", path, overwrite, {}, 0, "")
                      EXCEPT !.opts = o]
         /\ call' = NoCall(fs)
         /\ UNCHANGED <<fs, pc, pending>>
       ELSE
         /\ cmd' = [Cmd("watermark", "folder", path, overwrite, pdf_files, -1,
                        "") EXCEPT !.opts = o]
         /\ pc' = "watermark"
         /\ pending' = pdf_files
         /\ call' = NoCall(fs)
         /\ UNCHANGED fs
     ELSE
       /\ cmd' = Cmd("watermark", "invalid", path, overwrite, {}, 1,
                     "The specified path is neither a file nor a folder.")
       /\ call' = NoCall(fs)
       /\ UNCHANGED <<fs, pc, pending>>

\* one iteration of `for pdf_file in path.glob("*.pdf")` of watermark; an
\* exception leaves the loop and the command
WatermarkLoop ==
  /\ pc = "watermark"
  /\ \E pdf_file \in pending, env \in WatermarkEnvs(cmd.opts) :
       LET r == add_watermark(fs, pdf_file, cmd.overwrite, cmd.opts, env)
           rest == pending \ {pdf_file}
       IN /\ fs' = r.fs
          /\ call' = CallOf("add_watermark", pdf_file, cmd.overwrite, r, fs)
          /\ attempted' = attempted \cup {pdf_file}
          /\ IF r.err # "none" THEN
               /\ pc' = "idle"
               /\ pending' = {}
               /\ cmd' = [cmd EXCEPT !.exit = 1]
             ELSE IF rest = {} THEN
               /\ pc' = "idle"
               /\ pending' = {}
               /\ cmd' = [cmd EXCEPT !.exit = 0]
             ELSE
               /\ pending' = rest
               /\ UNCHANGED <<pc, cmd>>
  /\ UNCHANGED left

\* add_watermark called as a library function, with any argument values
AddWatermarkCall(target_pdf, overwrite, o) ==
  /\ AtPrompt
  /\ left > 0
  /\ left' = left - 1
  /\ \E env \in WatermarkEnvs(o) :
       LET r == add_watermark(fs, target_pdf, overwrite, o, env)
       IN /\ fs' = r.fs
          /\ call' = CallOf("add_watermark", target_pdf, overwrite, r, fs)
          /\ cmd' = Cmd("add_watermark", "call", target_pdf, overwrite, {},
                        ExitOf(r.err), "")
  /\ attempted' = {}
  /\ UNCHANGED <<pc, pending>>

\* the invocation ends: the process and what it recorded are gone, the
\* folder stays
Exit ==
  /\ pc = "idle"
  /\ cmd # NoCmd
  /\ cmd' = NoCmd
  /\ call' = NoCall(fs)
  /\ attempted' = {}
  /\ UNCHANGED <<fs, pc, pending, left>>

Next ==
  \/ \E target \in Targets, overwrite \in BOOLEAN : Shrink(target, overwrite)
  \/ ShrinkLoop
  \/ \E path \in Targets, overwrite \in BOOLEAN, o \in OptionInputs :
       Watermark(path, overwrite, o)
  \/ WatermarkLoop
  \/ \E target_pdf \in Targets \ {Folder}, overwrite \in BOOLEAN,
        o \in OptionInputs :
       AddWatermarkCall(target_pdf, overwrite, o)
  \/ Exit

Spec == Init /\ [][Next]_vars

\* the watermark command run on the folder, again and again
NextRuns ==
  \/ \E overwrite \in BOOLEAN : Watermark(Folder, overwrite, DefaultOptions)
  \/ WatermarkLoop
  \/ Exit

SpecRuns == InitRuns /\ [][NextRuns]_vars

\* ------------------------------------------------------------ claims
\* The last step made an add_watermark / a shrink_pdf call (not skipped by
\* the marker check), whose target is call.target and whose folder before
\* the call is call.before; fs is the folder after it.
Watermarked == call.op = "add_watermark" /\ ~call.skipped
Shrunk == call.op = "shrink_pdf"

Suffix(op) == IF op = "shrink_pdf" THEN "_shrunken" ELSE MARKER

SameAsBefore(p) ==
  p \in DOMAIN call.before => p \in DOMAIN fs /\ fs[p] = call.before[p]

\* C1: after add_watermark returns or raises, the temporary overlay file
\* '<stem>_temp.pdf' created by the operation does not exist: a file at that
\* path, if any, is the one that was there before the call.
C1_NoTempLeft ==
  call.op = "add_watermark" =>
    LET tmp == watermark_pdf_path(call.target) IN
    tmp \in DOMAIN fs =>
      tmp \in DOMAIN call.before /\ fs[tmp] = call.before[tmp]

\* C2: in folder mode, when the command has ended, every .pdf file of the
\* folder listing has been attempted: a file that cannot be processed does
\* not keep the loop from the files listed after it.  (Stated for the ends
\* that are not a refused write.)
C2_EveryFileAttempted ==
  (cmd.mode = "folder" /\ cmd.exit # -1 /\ call.err # "PermissionError") =>
    attempted = cmd.listing

\* C3: with overwrite the output path is the input path; without overwrite
\* it is another path, the input's with the suffix appended to the stem, and
\* the input file is the same after the operation as before it.  A successful
\* operation has written the output path.
C3_OutputPath ==
  (Watermarked \/ Shrunk) =>
    /\ IF call.overwrite THEN call.output = call.target
       ELSE /\ call.output # call.target
            /\ call.output.stem = call.target.stem \o <<Suffix(call.op)>>
            /\ call.output.ext = call.target.ext
            /\ SameAsBefore(call.target)
    /\ call.err = "none" =>
         call.output \in DOMAIN fs /\ fs[call.output].kind = "pdf"

C3_Witness ==
  /\ Watermarked
  /\ ~call.overwrite
  /\ call.err = "none"
  /\ call.target \in DOMAIN fs
  /\ call.output \in DOMAIN fs
  /\ fs[call.output] # fs[call.target]

\* C4: add_watermark on a target whose stem contains '_watermarked' changes
\* nothing in the folder, with or without overwrite, and returns normally.
C4_MarkedIsNoOp ==
  (call.op = "add_watermark" /\ InStem(MARKER, call.target.stem)) =>
    fs = call.before /\ call.err = "none"

C4_Witness ==
  /\ call.op = "add_watermark"
  /\ InStem(MARKER, call.target.stem)
  /\ call.target \in DOMAIN fs
  /\ fs[call.target].kind = "pdf"
  /\ Len(fs[call.target].pages) > 0
  /\ call.overwrite

\* C5: after any sequence of runs of the watermark command on the folder,
\* every page of every PDF carries at most one overlay.
C5_AtMostOneOverlay ==
  \A p \in DOMAIN fs :
    \A i \in 1..Len(fs[p].pages) : fs[p].pages[i].ov <= 1

\* C6: a command run on a folder without .pdf files reports 'No PDF files
\* found', ends with a non-zero exit code and writes nothing.
C6_NoPdfsFound ==
  (cmd.mode = "folder" /\ cmd.exit # -1 /\ cmd.listing = {}) =>
    /\ cmd.exit # 0
    /\ cmd.msg = "No PDF files found in the specified folder."
    /\ fs = call.before

\* C7: a single-file target whose extension is not .pdf is rejected with exit
\* code 1, and no file is opened, created or modified.
C7_ExtensionValidated ==
  (cmd.mode = "file" /\ lower(cmd.target.ext) # "pdf") =>
    /\ cmd.exit = 1
    /\ ~call.opened
    /\ fs = call.before

\* C8: a successful add_watermark writes an output with the pages of the
\* input, in the input's order, each with exactly one overlay more.
C8_EveryPageOnce ==
  (Watermarked /\ call.err = "none") =>
    LET inp == call.before[call.target].pages
        out == fs[call.output].pages
    IN /\ Len(out) = Len(inp)
       /\ Len(inp) >= 1
       /\ \A i \in 1..Len(inp) :
            out[i].id = inp[i].id /\ out[i].ov = inp[i].ov + 1

C8_Witness ==
  /\ Watermarked
  /\ call.err = "none"
  /\ Len(fs[call.output].pages) >= 2
  /\ fs[call.output].pages[2].id = 2

\* the errors of a missing or unreadable target, a target without pages, an
\* unknown font, a gray or alpha level out of range
EarlyErrors ==
  {"FileNotFoundError", "PdfError", "IndexError", "KeyError", "ValueError"}

\* C9: a watermark operation that fails for one of EarlyErrors, or that the
\* command line rejects (option values, a path that does not exist), leaves
\* the folder as it was: no overlay and no output file is written.
C9_FailsBeforeWriting ==
  /\ (call.op = "add_watermark" /\ call.err \in EarlyErrors) =>
       fs = call.before
  /\ (cmd.name = "watermark" /\ cmd.mode \in {"usage", "invalid"}) =>
       fs = call.before /\ call.op = "none" /\ cmd.exit # 0

C9_Witness ==
  /\ call.op = "add_watermark"
  /\ call.err \in {"KeyError", "ValueError"}
  /\ call.target \in DOMAIN fs
  /\ Len(fs[call.target].pages) >= 1

\* C10: a watermark operation modifies or deletes no file other than its
\* output path: every other file of the folder, the one at '<stem>_temp.pdf'
\* included, is there after the operation as it was before.
C10_OtherFilesKept ==
  Watermarked =>
    \A p \in DOMAIN call.before \ {call.output} : SameAsBefore(p)

====
